---- MODULE Spec2Model ----
(***************************************************************************)
(* Model of src/api/refresh.rs: the request handler of the cjlint          *)
(* analysis pipeline (clone, locate manifest, run analyzer, parse and      *)
(* normalize, build result, store in the cache, release the working copy). *)
(* Several requests run concurrently; they share the /tmp filesystem and   *)
(* the key-value cache.                                                    *)
(***************************************************************************)
EXTENDS Naturals, Sequences, FiniteSets, TLC

\* Number of concurrent requests.
NumReq == 2

Req == 1..NumReq

\* Values of the `repo` query parameter.
Urls == {"u1", "u2"}

\* Option<T>: None is the empty sequence, Some(x) the one-element sequence.
None == <<>>
Some(x) == <<x>>
IsSome(o) == Len(o) = 1
Unwrap(o) == o[1]

(***************************************************************************)
(* Strings the code builds are sequences of characters; a fixed text that  *)
(* no operation of the code splits ("/tmp/cjrepo_") is one element.        *)
(***************************************************************************)
StartsWith(s, p) == Len(p) <= Len(s) /\ SubSeq(s, 1, Len(p)) = p
SliceFrom(s, n) == SubSeq(s, n + 1, Len(s))
EndsWithSlash(s) == Len(s) > 0 /\ s[Len(s)] = "/"

\* generate_random_string: the strings the random generator may return.
GenerateRandomString == {<<"a">>, <<"b">>}

\* clone_repository: Path::new("/tmp").join(format!("cjrepo_{}", suffix)).
TargetDir(random_suffix) ==
    <<"/tmp/cjrepo_">> \o random_suffix

Dirs == {TargetDir(s) : s \in GenerateRandomString}

\* A key that leaves the repository URL out.
CacheKey_NoRepo(repo_url) == <<"cjlint_", "">>

\* save_to_redis: format!("cjlint_{}", repo).
CacheKey(repo_url) == <<"cjlint_", repo_url>>

\* The remote repositories: the HEAD commit and the manifest's package.name
\* that a clone of each URL brings into the working copy.
HeadOf(u) == IF u = "u1" THEN "c1" ELSE "c2"
ManifestOf(u) == IF u = "u1" THEN "p1" ELSE "p2"

\* A directory under /tmp: absent, empty (just created), or holding a clone.
DirAbsent == [kind |-> "absent", url |-> "-"]
DirEmpty == [kind |-> "empty", url |-> "-"]
DirCloned(u) == [kind |-> "cloned", url |-> u]

\* serde_json::to_string(&analysis_result)
Serialize(res) ==
    <<"{", "cjlint", res.cjlint, "created_at", res.created_at,
      "commit", res.commit, "package_name", res.package_name, "}">>

\* A store that appends to the key instead of replacing its entry.
RedisSet_Append(store, key, value) == store \cup {<<key, value>>}

\* Redis SET: the key's previous entry is replaced.
RedisSet(store, key, value) ==
    {e \in store : e[1] # key} \cup {<<key, value>>}

\* create_response: the ApiResponse envelope with its status code.
create_response(status_code, success, message, data, error) ==
    [status |-> status_code, success |-> success, message |-> message,
     data |-> data, error |-> error]

\* A rewriting that never replaces item.file.
NormalizePath_Identity(file, repo_path) == file

\* A rewriting that strips repo_path alone and keeps the separator after it.
NormalizePath_PrefixOnly(file, repo_path) ==
    IF StartsWith(file, repo_path) THEN SliceFrom(file, Len(repo_path)) ELSE file

\* The handler's path rewriting of one finding's file field.
NormalizePath(file, repo_path) ==
    LET repo_path_with_slash ==
            IF EndsWithSlash(repo_path) THEN repo_path ELSE repo_path \o <<"/">>
    IN  IF StartsWith(file, repo_path_with_slash)
        THEN SliceFrom(file, Len(repo_path_with_slash))
        ELSE IF StartsWith(file, repo_path)
             THEN LET rest == SliceFrom(file, Len(repo_path))
                  IN  IF StartsWith(rest, <<"/">>) THEN SliceFrom(rest, 1) ELSE rest
             ELSE file

NormalizeAll(items, repo_path) ==
    [i \in 1..Len(items) |-> NormalizePath(items[i], repo_path)]

\* What the analyzer may leave in its output file for a working copy: text
\* that is not a JSON array of findings, or findings (their file fields).
RawOutputs(repo_path) ==
    {[valid |-> FALSE, items |-> <<>>],
     [valid |-> TRUE, items |-> <<repo_path \o <<"/", "a">>, <<"/", "x">>>>]}

VARIABLES
    pc,              \* each request's position in handler
    repo,            \* the `repo` query parameter (Option)
    target_dir,      \* clone_repository's target_dir (Option)
    clone_result,    \* CloneResult (Option)
    repo_cleanup,    \* the RepoCleanup guard (Option of [repo_path, cleaned])
    package_name,    \* Option
    content,         \* run_cjlint's returned text (Option)
    findings,        \* processed_analysis_result
    analysis_result, \* the AnalysisResult (Option)
    response,        \* the value handler returns (Option)
    disk,            \* the directories under /tmp
    cache,           \* the key-value store: a set of <<key, value>>
    now,             \* SystemTime::now(), in seconds
    failed,          \* history: the stage that failed in each request (Option)
    removals,        \* history: remove_dir_all calls of each request's guard
    writes,          \* history: the <<key, value>> each request has SET
    built,           \* history: AnalysisResult values each request constructed
    lastStored,      \* history: per URL, the value of the last completed SET
    norm,            \* one application of the path rewriting: its inputs and output
    setup,           \* ensure_cjlint_extracted: its position, locals and /tmp/cj
    outfiles,        \* the analyzer output files /tmp/<random>.json
    lint,            \* run_cjlint's locals in each request
    guard            \* history: cleanup() calls made on each request's guard

vars == <<pc, repo, target_dir, clone_result, repo_cleanup, package_name, content,
          findings, analysis_result, response, disk, cache, now, failed,
          removals, writes, built, lastStored, norm, setup, outfiles, lint, guard>>

\* The variables the handler's pipeline stages leave alone.
aux == <<norm, setup, outfiles, lint, guard>>

\* The handler's variables.
pipeline == <<pc, repo, target_dir, clone_result, repo_cleanup, package_name,
              content, findings, analysis_result, response, disk, cache, now,
              failed, removals, writes, built, lastStored>>

\* The value of a variable of aux in a specification that does not use it.
Unused == <<>>

\* perms.set_mode(0o755)
ExecMode == 493

\* File modes: 0o444, 0o555, 0o600, 0o644, 0o700, 0o755.
Modes == {292, 365, 384, 420, 448, ExecMode}


\* run_cjlint's output file, /tmp/<random>.json.
OutputPath(random_name) == <<"/tmp/">> \o random_name \o <<".json">>

OutputPaths == {OutputPath(s) : s \in GenerateRandomString}

\* No request is inside run_cjlint and /tmp holds no output file.
NoLint == [output_path |-> None, exit_ok |-> FALSE, json_content |-> None,
           error |-> None, deletes |-> 0]

LintIdle ==
    /\ outfiles = [f \in OutputPaths |-> None]
    /\ lint = [r \in Req |-> NoLint]

\* No cleanup() call has been made.
GuardIdle == guard = [r \in Req |-> [calls |-> 0, result |-> None]]

\* Every request is about to enter handler.
PipelineIdle ==
    /\ pc = [r \in Req |-> "start"]
    /\ repo = [r \in Req |-> None]
    /\ target_dir = [r \in Req |-> None]
    /\ clone_result = [r \in Req |-> None]
    /\ repo_cleanup = [r \in Req |-> None]
    /\ package_name = [r \in Req |-> None]
    /\ content = [r \in Req |-> None]
    /\ findings = [r \in Req |-> <<>>]
    /\ analysis_result = [r \in Req |-> None]
    /\ response = [r \in Req |-> None]
    /\ disk = [d \in Dirs |-> DirAbsent]
    /\ cache = {}
    /\ now = 1
    /\ failed = [r \in Req |-> None]
    /\ removals = [r \in Req |-> [attempts |-> 0, ok |-> 0]]
    /\ writes = [r \in Req |-> <<>>]
    /\ built = [r \in Req |-> 0]
    /\ lastStored = [u \in Urls |-> None]

\* The handler's stages use no variable of aux.
AuxUnused ==
    /\ norm = Unused /\ setup = Unused
    /\ outfiles = Unused /\ lint = Unused /\ guard = Unused

Init == PipelineIdle /\ AuxUnused

\* The handler's `let mut repo_cleanup = RepoCleanup::new(repo_path)`.
NewRepoCleanup(repo_path) == Some([repo_path |-> repo_path, cleaned |-> FALSE])

\* A removal of the parent directory's content instead of the guard's path.
RemoveDirAll_Tmp(r) ==
    /\ disk' = [d \in DOMAIN disk |-> DirAbsent]
    /\ repo_cleanup' = [repo_cleanup EXCEPT ![r] =
           Some([Unwrap(repo_cleanup[r]) EXCEPT !.cleaned = TRUE])]
    /\ removals' = [removals EXCEPT ![r] =
           [attempts |-> @.attempts + 1, ok |-> @.ok + 1]]

\* remove_dir_all on a guard's path, by cleanup() or by drop(): it succeeds
\* only on an existing directory, and may fail on one (an I/O error).  Only
\* a success sets `cleaned`.
RemoveDirAll(r) ==
    LET g == Unwrap(repo_cleanup[r]) IN
    \/ /\ disk[g.repo_path].kind # "absent"
       /\ disk' = [disk EXCEPT ![g.repo_path] = DirAbsent]
       /\ repo_cleanup' = [repo_cleanup EXCEPT ![r] = Some([g EXCEPT !.cleaned = TRUE])]
       /\ removals' = [removals EXCEPT ![r] =
              [attempts |-> @.attempts + 1, ok |-> @.ok + 1]]
    \/ /\ removals' = [removals EXCEPT ![r].attempts = @ + 1]
       /\ UNCHANGED <<disk, repo_cleanup>>

\* A cleanup() that does not test `cleaned`.
cleanup_Always(r) == RemoveDirAll(r)

\* RepoCleanup::cleanup, lines 119-128.
cleanup(r) ==
    IF ~Unwrap(repo_cleanup[r]).cleaned
    THEN RemoveDirAll(r)
    ELSE UNCHANGED <<disk, repo_cleanup, removals>>

\* A guard without a Drop implementation.
drop_Nothing(r) == UNCHANGED <<disk, repo_cleanup, removals>>

\* A Drop that does not test `cleaned`.
drop_Always(r) ==
    IF IsSome(repo_cleanup[r])
    THEN RemoveDirAll(r)
    ELSE UNCHANGED <<disk, repo_cleanup, removals>>

\* impl Drop for RepoCleanup, lines 131-141; a request that returns before
\* line 305 has no guard to drop.
drop(r) ==
    IF IsSome(repo_cleanup[r]) /\ ~Unwrap(repo_cleanup[r]).cleaned
    THEN RemoveDirAll(r)
    ELSE UNCHANGED <<disk, repo_cleanup, removals>>

(***************************************************************************)
(* `return create_response(..)` in handler: the response value is built,   *)
(* the locals go out of scope (the guard's Drop runs, if there is a        *)
(* guard), and then the caller receives the response.  Nothing suspends    *)
(* the task between these.                                                 *)
(***************************************************************************)
Return(r, resp) ==
    /\ response' = [response EXCEPT ![r] = Some(resp)]
    /\ drop(r)
    /\ pc' = [pc EXCEPT ![r] = "done"]

\* The 500 of a failed stage, with error = format!("<prefix>: {}", e); the
\* text of e is not modelled.
ReturnError(r, stage, prefix) ==
    /\ Return(r, create_response(500, FALSE, None, None, Some(prefix)))
    /\ failed' = [failed EXCEPT ![r] = Some(stage)]

\* handler, lines 276-290, and clone_repository, lines 167-170.
HandlerStart(r) ==
    /\ pc[r] = "start"
    /\ \/ /\ Return(r, create_response(400, FALSE, None, None,
                                      Some("repo query parameter is required")))
          /\ UNCHANGED <<repo, target_dir>>
       \/ \E u \in Urls, random_suffix \in GenerateRandomString :
             /\ repo' = [repo EXCEPT ![r] = Some(u)]
             /\ target_dir' = [target_dir EXCEPT ![r] = Some(TargetDir(random_suffix))]
             /\ pc' = [pc EXCEPT ![r] = "clone_rm"]
             /\ UNCHANGED <<response, disk, repo_cleanup, removals>>
    /\ UNCHANGED <<clone_result, package_name, content, findings, analysis_result,
                   cache, now, failed, writes, built, lastStored>>
    /\ UNCHANGED aux

\* clone_repository, lines 172-174: remove a pre-existing directory.
CloneRemoveExisting(r) ==
    /\ pc[r] = "clone_rm"
    /\ LET d == Unwrap(target_dir[r]) IN
       IF disk[d].kind # "absent"
       THEN \/ /\ disk' = [disk EXCEPT ![d] = DirAbsent]
               /\ pc' = [pc EXCEPT ![r] = "clone_mkdir"]
               /\ UNCHANGED <<response, failed, repo_cleanup, removals>>
            \/ ReturnError(r, "clone", "Failed to clone repository")
       ELSE /\ pc' = [pc EXCEPT ![r] = "clone_mkdir"]
            /\ UNCHANGED <<response, failed, disk, repo_cleanup, removals>>
    /\ UNCHANGED <<repo, target_dir, clone_result, package_name, content, findings,
                   analysis_result, cache, now, writes, built, lastStored>>
    /\ UNCHANGED aux

\* clone_repository, line 176: create_dir_all (an existing directory is kept).
CloneCreateDir(r) ==
    /\ pc[r] = "clone_mkdir"
    /\ LET d == Unwrap(target_dir[r]) IN
       \/ /\ disk' = [disk EXCEPT ![d] = IF @.kind = "absent" THEN DirEmpty ELSE @]
          /\ pc' = [pc EXCEPT ![r] = "clone_fetch"]
          /\ UNCHANGED <<response, failed, repo_cleanup, removals>>
       \/ ReturnError(r, "clone", "Failed to clone repository")
    /\ UNCHANGED <<repo, target_dir, clone_result, package_name, content, findings,
                   analysis_result, cache, now, writes, built, lastStored>>
    /\ UNCHANGED aux

\* clone_repository, lines 178-191, and handler, lines 292-305.  The clone
\* fails (a directory that is not empty, the network, the URL) and leaves
\* the directory, or it fills the directory; then HEAD is resolved, and
\* `unwrap` panics if it cannot be.  A panic unwinds handler: the request
\* ends with no response value.
CloneFetch(r) ==
    /\ pc[r] = "clone_fetch"
    /\ LET d == Unwrap(target_dir[r])
           u == Unwrap(repo[r])
       IN
       \/ /\ ReturnError(r, "clone", "Failed to clone repository")
          /\ UNCHANGED clone_result
       \/ /\ disk[d].kind # "cloned"
          /\ disk' = [disk EXCEPT ![d] = DirCloned(u)]
          /\ \/ /\ clone_result' = [clone_result EXCEPT ![r] =
                       Some([repo_path |-> d, commit_hash |-> HeadOf(u)])]
                /\ repo_cleanup' = [repo_cleanup EXCEPT ![r] = NewRepoCleanup(d)]
                /\ pc' = [pc EXCEPT ![r] = "find_package_name"]
                /\ UNCHANGED <<response, failed, removals>>
             \/ /\ failed' = [failed EXCEPT ![r] = Some("head")]
                /\ pc' = [pc EXCEPT ![r] = "panicked"]
                /\ UNCHANGED <<response, clone_result, repo_cleanup, removals>>
    /\ UNCHANGED <<repo, target_dir, package_name, content, findings, analysis_result,
                   cache, now, writes, built, lastStored>>
    /\ UNCHANGED aux

\* find_package_name, lines 194-219, and handler, lines 307-318.  It reads
\* the manifest that is in the directory now, or fails (no cjpm.toml, which
\* is the case of a directory that holds no clone; unreadable; not TOML; no
\* package.name).
FindPackageName(r) ==
    /\ pc[r] = "find_package_name"
    /\ LET d == Unwrap(clone_result[r]).repo_path IN
       \/ /\ disk[d].kind = "cloned"
          /\ package_name' = [package_name EXCEPT ![r] = Some(ManifestOf(disk[d].url))]
          /\ pc' = [pc EXCEPT ![r] = "run_cjlint"]
          /\ UNCHANGED <<response, failed, disk, repo_cleanup, removals>>
       \/ /\ ReturnError(r, "manifest", "Failed to find package name")
          /\ UNCHANGED package_name
    /\ UNCHANGED <<repo, target_dir, clone_result, content, findings, analysis_result,
                   cache, now, writes, built, lastStored>>
    /\ UNCHANGED aux

\* run_cjlint, lines 221-247, and handler, lines 321-332.  It returns the
\* text of the output file, or fails (spawn, exit status, reading or deleting
\* the output file).
RunCjlint(r) ==
    /\ pc[r] = "run_cjlint"
    /\ \/ \E raw \in RawOutputs(Unwrap(clone_result[r]).repo_path) :
             /\ content' = [content EXCEPT ![r] = Some(raw)]
             /\ pc' = [pc EXCEPT ![r] = "parse"]
             /\ UNCHANGED <<response, failed, disk, repo_cleanup, removals>>
       \/ /\ ReturnError(r, "analyzer", "Failed to run cjlint")
          /\ UNCHANGED content
    /\ UNCHANGED <<repo, target_dir, clone_result, package_name, findings,
                   analysis_result, cache, now, writes, built, lastStored>>
    /\ UNCHANGED aux

\* A result with the commit and the package name exchanged.
MakeAnalysisResult_Swapped(items, created_at, clone_res, pkg) ==
    [cjlint |-> items, created_at |-> created_at,
     commit |-> pkg, package_name |-> clone_res.commit_hash]

\* handler, lines 372-380: the AnalysisResult value.
MakeAnalysisResult(items, created_at, clone_res, pkg) ==
    [cjlint |-> items, created_at |-> created_at,
     commit |-> clone_res.commit_hash, package_name |-> pkg]

\* A handler that logs the parse error and goes on with no findings.
ParseAndBuild_Lenient(r) ==
    /\ pc[r] = "parse"
    /\ LET raw == Unwrap(content[r])
           items == IF raw.valid THEN raw.items ELSE <<>>
       IN
       /\ findings' = [findings EXCEPT ![r] =
              NormalizeAll(items, Unwrap(clone_result[r]).repo_path)]
       /\ analysis_result' = [analysis_result EXCEPT ![r] =
              Some([cjlint |-> findings'[r], created_at |-> now,
                    commit |-> Unwrap(clone_result[r]).commit_hash,
                    package_name |-> Unwrap(package_name[r])])]
       /\ failed' = [failed EXCEPT ![r] = IF raw.valid THEN @ ELSE Some("parse")]
    /\ built' = [built EXCEPT ![r] = @ + 1]
    /\ now' = now + 1
    /\ pc' = [pc EXCEPT ![r] = "store"]
    /\ UNCHANGED <<repo, target_dir, clone_result, package_name, content, cache,
                   writes, lastStored, response, disk, repo_cleanup, removals>>
    /\ UNCHANGED aux

\* handler, lines 334-380: parse the findings, rewrite their file paths and
\* build the AnalysisResult (nothing suspends the task in between).
ParseAndBuild(r) ==
    /\ pc[r] = "parse"
    /\ LET raw == Unwrap(content[r]) IN
       IF raw.valid
       THEN /\ findings' = [findings EXCEPT ![r] =
                   NormalizeAll(raw.items, Unwrap(clone_result[r]).repo_path)]
            /\ analysis_result' = [analysis_result EXCEPT ![r] =
                   Some(MakeAnalysisResult(findings'[r], now, Unwrap(clone_result[r]),
                                           Unwrap(package_name[r])))]
            /\ built' = [built EXCEPT ![r] = @ + 1]
            /\ now' = now + 1
            /\ pc' = [pc EXCEPT ![r] = "store"]
            /\ UNCHANGED <<response, failed, disk, repo_cleanup, removals>>
       ELSE /\ ReturnError(r, "parse", "Failed to parse cjlint output")
            /\ UNCHANGED <<findings, analysis_result, built, now>>
    /\ UNCHANGED <<repo, target_dir, clone_result, package_name, content, cache,
                   writes, lastStored>>
    /\ UNCHANGED aux

\* save_to_redis, lines 249-261, and handler, lines 383-391.  It SETs the
\* key, or fails (no KV_URL, no client, no connection, the SET itself).
SaveToRedis(r) ==
    /\ pc[r] = "store"
    /\ LET u == Unwrap(repo[r])
           value == Serialize(Unwrap(analysis_result[r]))
       IN
       \/ /\ cache' = RedisSet(cache, CacheKey(u), value)
          /\ writes' = [writes EXCEPT ![r] = Append(@, <<CacheKey(u), value>>)]
          /\ lastStored' = [lastStored EXCEPT ![u] = Some(value)]
          /\ pc' = [pc EXCEPT ![r] = "cleanup"]
          /\ UNCHANGED <<response, failed, disk, repo_cleanup, removals>>
       \/ /\ ReturnError(r, "store", "Failed to save to Redis")
          /\ UNCHANGED <<cache, writes, lastStored>>
    /\ UNCHANGED <<repo, target_dir, clone_result, package_name, content, findings,
                   analysis_result, now, built>>
    /\ UNCHANGED aux

\* A handler that propagates cleanup()'s error (`cleanup().await?`).
Cleanup_Propagate(r) ==
    /\ pc[r] = "cleanup"
    /\ cleanup(r)
    /\ IF repo_cleanup'[r] = repo_cleanup[r]
       THEN /\ response' = [response EXCEPT ![r] =
                   Some(create_response(500, FALSE, None, None,
                                        Some("Failed to remove repository directory")))]
            /\ pc' = [pc EXCEPT ![r] = "done"]
       ELSE /\ pc' = [pc EXCEPT ![r] = "respond"]
            /\ UNCHANGED response
    /\ UNCHANGED <<repo, target_dir, clone_result, package_name, content, findings,
                   analysis_result, cache, now, failed, writes, built, lastStored>>
    /\ UNCHANGED aux

\* handler, lines 393-395: cleanup()'s error is only logged.
Cleanup(r) ==
    /\ pc[r] = "cleanup"
    /\ cleanup(r)
    /\ pc' = [pc EXCEPT ![r] = "respond"]
    /\ UNCHANGED <<repo, target_dir, clone_result, package_name, content, findings,
                   analysis_result, response, cache, now, failed, writes, built,
                   lastStored>>
    /\ UNCHANGED aux

\* handler, lines 397-404: the success response.
RespondOk(r) ==
    /\ pc[r] = "respond"
    /\ Return(r, create_response(200, TRUE, Some("Analysis completed successfully"),
                                 analysis_result[r], None))
    /\ UNCHANGED <<repo, target_dir, clone_result, package_name, content, findings,
                   analysis_result, cache, now, failed, writes, built, lastStored>>
    /\ UNCHANGED aux

Next ==
    \E r \in Req :
        \/ HandlerStart(r)
        \/ CloneRemoveExisting(r)
        \/ CloneCreateDir(r)
        \/ CloneFetch(r)
        \/ FindPackageName(r)
        \/ RunCjlint(r)
        \/ ParseAndBuild(r)
        \/ SaveToRedis(r)
        \/ Cleanup(r)
        \/ RespondOk(r)

Spec == Init /\ [][Next]_vars

(***************************************************************************)
(* run_cjlint, lines 221-247, step by step, with the output file it reads  *)
(* and deletes, followed by the handler's later stages.  Every request has *)
(* passed clone_repository and find_package_name: odd requests cloned u1   *)
(* into /tmp/cjrepo_a, even ones u2 into /tmp/cjrepo_b.                    *)
(***************************************************************************)
HeldUrl(r) == IF r % 2 = 1 THEN "u1" ELSE "u2"

HeldDir(r) == TargetDir(IF r % 2 = 1 THEN <<"a">> ELSE <<"b">>)

\* handler after line 305 (named = FALSE) or after line 318 (named = TRUE).
Cloned(at, named) ==
    /\ pc = [r \in Req |-> at]
    /\ repo = [r \in Req |-> Some(HeldUrl(r))]
    /\ target_dir = [r \in Req |-> Some(HeldDir(r))]
    /\ clone_result = [r \in Req |->
           Some([repo_path |-> HeldDir(r), commit_hash |-> HeadOf(HeldUrl(r))])]
    /\ repo_cleanup = [r \in Req |-> NewRepoCleanup(HeldDir(r))]
    /\ package_name = [r \in Req |->
           IF named THEN Some(ManifestOf(HeldUrl(r))) ELSE None]
    /\ content = [r \in Req |-> None]
    /\ findings = [r \in Req |-> <<>>]
    /\ analysis_result = [r \in Req |-> None]
    /\ response = [r \in Req |-> None]
    /\ disk = [d \in Dirs |->
           IF \E r \in Req : HeldDir(r) = d
           THEN DirCloned(HeldUrl(CHOOSE r \in Req : HeldDir(r) = d))
           ELSE DirAbsent]
    /\ cache = {}
    /\ now = 1
    /\ failed = [r \in Req |-> None]
    /\ removals = [r \in Req |-> [attempts |-> 0, ok |-> 0]]
    /\ writes = [r \in Req |-> <<>>]
    /\ built = [r \in Req |-> 0]
    /\ lastStored = [u \in Urls |-> None]

LintInit ==
    /\ Cloned("run_cjlint", TRUE)
    /\ LintIdle
    /\ norm = Unused /\ setup = Unused /\ guard = Unused

\* run_cjlint returns Err(message); handler, lines 321-332, answers 500.
LintError(r, message) ==
    /\ lint' = [lint EXCEPT ![r].error = Some(message)]
    /\ ReturnError(r, "analyzer", "Failed to run cjlint")
    /\ UNCHANGED content

\* lines 222-229: the output path is drawn and the analyzer is run to its
\* end; it may write the output file, and exits with status 0 or not.
LintSpawn(r) ==
    /\ pc[r] = "run_cjlint"
    /\ \E random_name \in GenerateRandomString :
          LET output_path == OutputPath(random_name) IN
          \/ /\ LintError(r, "Failed to execute cjlint")
             /\ UNCHANGED outfiles
          \/ \E exit_ok \in BOOLEAN,
                written \in {None} \cup
                    {Some(raw) : raw \in RawOutputs(Unwrap(clone_result[r]).repo_path)} :
                /\ outfiles' = IF IsSome(written)
                               THEN [outfiles EXCEPT ![output_path] = written]
                               ELSE outfiles
                /\ lint' = [lint EXCEPT ![r].output_path = Some(output_path),
                                        ![r].exit_ok = exit_ok]
                /\ pc' = [pc EXCEPT ![r] = "lint_status"]
                /\ UNCHANGED <<content, response, failed, disk, repo_cleanup, removals>>
    /\ UNCHANGED <<repo, target_dir, clone_result, package_name, findings,
                   analysis_result, cache, now, writes, built, lastStored>>
    /\ UNCHANGED <<norm, setup, guard>>

\* An invoker that removes the output file before it reports the exit code.
LintStatus_Tidy(r) ==
    /\ pc[r] = "lint_status"
    /\ IF lint[r].exit_ok
       THEN /\ pc' = [pc EXCEPT ![r] = "lint_read"]
            /\ UNCHANGED <<lint, outfiles, content, response, failed, disk,
                           repo_cleanup, removals>>
       ELSE /\ lint' = [lint EXCEPT
                   ![r].error = Some("cjlint command failed with exit code"),
                   ![r].deletes = @ + 1]
            /\ outfiles' = [outfiles EXCEPT ![Unwrap(lint[r].output_path)] = None]
            /\ ReturnError(r, "analyzer", "Failed to run cjlint")
            /\ UNCHANGED content
    /\ UNCHANGED <<repo, target_dir, clone_result, package_name, findings,
                   analysis_result, cache, now, writes, built, lastStored>>
    /\ UNCHANGED <<norm, setup, guard>>

\* lines 231-236: if !status.success() { return Err(..) }
LintStatus(r) ==
    /\ pc[r] = "lint_status"
    /\ IF lint[r].exit_ok
       THEN /\ pc' = [pc EXCEPT ![r] = "lint_read"]
            /\ UNCHANGED <<lint, content, response, failed, disk, repo_cleanup,
                           removals>>
       ELSE LintError(r, "cjlint command failed with exit code")
    /\ UNCHANGED outfiles
    /\ UNCHANGED <<repo, target_dir, clone_result, package_name, findings,
                   analysis_result, cache, now, writes, built, lastStored>>
    /\ UNCHANGED <<norm, setup, guard>>

\* lines 238-240: fs::read_to_string(&output_path), which fails on a file
\* that does not exist and may fail on one that does.
LintRead(r) ==
    /\ pc[r] = "lint_read"
    /\ LET output_path == Unwrap(lint[r].output_path) IN
       \/ /\ IsSome(outfiles[output_path])
          /\ lint' = [lint EXCEPT ![r].json_content = outfiles[output_path]]
          /\ pc' = [pc EXCEPT ![r] = "lint_delete"]
          /\ UNCHANGED <<content, response, failed, disk, repo_cleanup, removals>>
       \/ LintError(r, "Failed to read cjlint output")
    /\ UNCHANGED outfiles
    /\ UNCHANGED <<repo, target_dir, clone_result, package_name, findings,
                   analysis_result, cache, now, writes, built, lastStored>>
    /\ UNCHANGED <<norm, setup, guard>>

\* An invoker that ignores the result of remove_file.
LintDelete_Ignore(r) ==
    /\ pc[r] = "lint_delete"
    /\ LET output_path == Unwrap(lint[r].output_path) IN
       /\ \/ outfiles' = [outfiles EXCEPT ![output_path] = None]
          \/ UNCHANGED outfiles
       /\ content' = [content EXCEPT ![r] = lint[r].json_content]
       /\ lint' = [lint EXCEPT ![r] = [NoLint EXCEPT !.deletes = lint[r].deletes + 1]]
       /\ pc' = [pc EXCEPT ![r] = "parse"]
       /\ UNCHANGED <<response, failed, disk, repo_cleanup, removals>>
    /\ UNCHANGED <<repo, target_dir, clone_result, package_name, findings,
                   analysis_result, cache, now, writes, built, lastStored>>
    /\ UNCHANGED <<norm, setup, guard>>

\* lines 242-246: fs::remove_file(&output_path), which fails on a file that
\* does not exist and may fail on one that does; then Ok(json_content), and
\* run_cjlint's locals are gone.
LintDelete(r) ==
    /\ pc[r] = "lint_delete"
    /\ LET output_path == Unwrap(lint[r].output_path) IN
       \/ /\ IsSome(outfiles[output_path])
          /\ outfiles' = [outfiles EXCEPT ![output_path] = None]
          /\ content' = [content EXCEPT ![r] = lint[r].json_content]
          /\ lint' = [lint EXCEPT ![r] = [NoLint EXCEPT !.deletes = lint[r].deletes + 1]]
          /\ pc' = [pc EXCEPT ![r] = "parse"]
          /\ UNCHANGED <<response, failed, disk, repo_cleanup, removals>>
       \/ /\ lint' = [lint EXCEPT
                 ![r].error = Some("Failed to delete cjlint output file"),
                 ![r].deletes = @ + 1]
          /\ ReturnError(r, "analyzer", "Failed to run cjlint")
          /\ UNCHANGED <<content, outfiles>>
    /\ UNCHANGED <<repo, target_dir, clone_result, package_name, findings,
                   analysis_result, cache, now, writes, built, lastStored>>
    /\ UNCHANGED <<norm, setup, guard>>

LintNext ==
    \E r \in Req :
        \/ LintSpawn(r)
        \/ LintStatus(r)
        \/ LintRead(r)
        \/ LintDelete(r)
        \/ ParseAndBuild(r)
        \/ SaveToRedis(r)
        \/ Cleanup(r)
        \/ RespondOk(r)

LintSpec == LintInit /\ [][LintNext]_vars

(***************************************************************************)
(* RepoCleanup, lines 105-141, under a caller that may call cleanup() any  *)
(* number of times (up to MaxCalls) before the guard goes out of scope.    *)
(* Every request holds the guard of its clone, as after line 305.          *)
(***************************************************************************)
MaxCalls == 3

GuardInit ==
    /\ Cloned("guarded", FALSE)
    /\ GuardIdle
    /\ norm = Unused /\ setup = Unused /\ outfiles = Unused /\ lint = Unused

\* cleanup()'s return value, lines 121-127: Err when its remove_dir_all
\* failed, Ok(()) otherwise.
CleanupResult(r) ==
    IF removals'[r].attempts # removals[r].attempts /\ removals'[r].ok = removals[r].ok
    THEN "Err"
    ELSE "Ok"

\* repo_cleanup.cleanup().await
GuardCleanup(r) ==
    /\ pc[r] = "guarded"
    /\ guard[r].calls < MaxCalls
    /\ cleanup(r)
    /\ guard' = [guard EXCEPT ![r] =
           [calls |-> @.calls + 1, result |-> Some(CleanupResult(r))]]
    /\ UNCHANGED <<pc, repo, target_dir, clone_result, package_name, content,
                   findings, analysis_result, response, cache, now, failed, writes,
                   built, lastStored>>
    /\ UNCHANGED <<norm, setup, outfiles, lint>>

\* The guard goes out of scope.
GuardDrop(r) ==
    /\ pc[r] = "guarded"
    /\ drop(r)
    /\ pc' = [pc EXCEPT ![r] = "dropped"]
    /\ UNCHANGED <<repo, target_dir, clone_result, package_name, content,
                   findings, analysis_result, response, cache, now, failed, writes,
                   built, lastStored>>
    /\ UNCHANGED aux

GuardNext ==
    \E r \in Req :
        \/ GuardCleanup(r)
        \/ GuardDrop(r)

GuardSpec == GuardInit /\ [][GuardNext]_vars

(***************************************************************************)
(* The path rewriting of handler, lines 347-370, applied to one working-   *)
(* copy path and one finding path drawn from the strings over Chars.       *)
(***************************************************************************)
Chars == {"/", "r", "a"}

MaxRepoLen == 3

MaxFileLen == 5

StringsUpTo(lo, hi) == UNION {[1..n -> Chars] : n \in lo..hi}

NormInit ==
    /\ PipelineIdle
    /\ setup = Unused /\ outfiles = Unused /\ lint = Unused /\ guard = Unused
    /\ norm \in [repo_path : StringsUpTo(1, MaxRepoLen),
                 file : StringsUpTo(0, MaxFileLen),
                 out : {None}]

\* item.file is replaced by its rewritten value.
Normalize ==
    /\ norm.out = None
    /\ norm' = [norm EXCEPT !.out = Some(NormalizePath(norm.file, norm.repo_path))]
    /\ UNCHANGED <<pipeline, setup, outfiles, lint, guard>>

NormNext == Normalize

NormSpec == NormInit /\ [][NormNext]_vars

(***************************************************************************)
(* ensure_cjlint_extracted, lines 143-164, run once by main.  setup.dir is *)
(* whether /tmp/cj exists, setup.bin the mode of /tmp/cj/tools/bin/cjlint  *)
(* if that file exists, setup.entry the mode the bundled archive records   *)
(* for that file if it holds it, setup.perms the local `perms`.            *)
(***************************************************************************)
SetupInit ==
    /\ PipelineIdle
    /\ norm = Unused /\ outfiles = Unused /\ lint = Unused /\ guard = Unused
    /\ \E dir \in BOOLEAN, bin, entry \in {None} \cup {Some(m) : m \in Modes} :
          /\ IsSome(bin) => dir
          /\ setup = [pc |-> "check", dir |-> dir, bin |-> bin, entry |-> entry,
                      perms |-> None, extracted |-> FALSE]

SetupFail == setup' = [setup EXCEPT !.pc = "failed"]

\* line 148
SetupCheck ==
    /\ setup.pc = "check"
    /\ setup' = [setup EXCEPT !.pc =
           IF ~setup.dir \/ ~IsSome(setup.bin) THEN "decode" ELSE "returned"]
    /\ UNCHANGED <<pipeline, norm, outfiles, lint, guard>>

\* line 149: decode_all(..)?
SetupDecode ==
    /\ setup.pc = "decode"
    /\ \/ setup' = [setup EXCEPT !.pc = "create_dir"]
       \/ SetupFail
    /\ UNCHANGED <<pipeline, norm, outfiles, lint, guard>>

\* line 151: fs::create_dir_all(target_dir).await?
SetupCreateDir ==
    /\ setup.pc = "create_dir"
    /\ \/ setup' = [setup EXCEPT !.pc = "unpack", !.dir = TRUE]
       \/ SetupFail
    /\ UNCHANGED <<pipeline, norm, outfiles, lint, guard>>

\* lines 153-155: archive.unpack(target_dir)? writes each entry with the
\* mode the archive records for it.
SetupUnpack ==
    /\ setup.pc = "unpack"
    /\ \/ setup' = [setup EXCEPT !.pc = "metadata", !.extracted = TRUE,
                                 !.bin = IF IsSome(setup.entry) THEN setup.entry ELSE @]
       \/ SetupFail
    /\ UNCHANGED <<pipeline, norm, outfiles, lint, guard>>

\* line 159: let mut perms = fs::metadata(&cjlint_path).await?.permissions()
SetupMetadata ==
    /\ setup.pc = "metadata"
    /\ \/ /\ IsSome(setup.bin)
          /\ setup' = [setup EXCEPT !.pc = "set_mode", !.perms = setup.bin]
       \/ SetupFail
    /\ UNCHANGED <<pipeline, norm, outfiles, lint, guard>>

\* lines 160-163: perms.set_mode(0o755) changes the local value; perms is
\* then dropped and Ok(()) returned.
SetupSetMode ==
    /\ setup.pc = "set_mode"
    /\ setup' = [setup EXCEPT !.pc = "returned", !.perms = Some(ExecMode)]
    /\ UNCHANGED <<pipeline, norm, outfiles, lint, guard>>

SetupNext ==
    \/ SetupCheck
    \/ SetupDecode
    \/ SetupCreateDir
    \/ SetupUnpack
    \/ SetupMetadata
    \/ SetupSetMode

SetupSpec == SetupInit /\ [][SetupNext]_vars

(***************************************************************************)
(* Properties.                                                             *)
(***************************************************************************)

\* The request has ended: handler returned its response, or it panicked.
Ended(r) == pc[r] \in {"done", "panicked"}

\* The stages of the pipeline and the error text of each.
Stages == {"clone", "manifest", "analyzer", "parse", "store"}
ErrorOf(stage) ==
    CASE stage = "clone" -> "Failed to clone repository"
      [] stage = "manifest" -> "Failed to find package name"
      [] stage = "analyzer" -> "Failed to run cjlint"
      [] stage = "parse" -> "Failed to parse cjlint output"
      [] stage = "store" -> "Failed to save to Redis"

\* The cache entries under the key of a repository URL.
EntriesOf(u) == {e \in cache : e[1] = <<"cjlint_", u>>}

\* C1: a request whose clone_repository succeeded has had remove_dir_all
\* run on its working copy by the time its response is delivered, whichever
\* stage failed or none.
C1_ReleasedBeforeResponse ==
    \A r \in Req :
        (pc[r] = "done" /\ IsSome(clone_result[r])) => removals[r].attempts >= 1

C1_Witness ==
    \E r \in Req :
        /\ pc[r] = "done"
        /\ IsSome(clone_result[r])
        /\ failed[r] = Some("analyzer")
        /\ removals[r].attempts = 1

\* C2 (as claimed): when a request that got past create_dir_all ends, its
\* temporary directory is no longer on disk.
C2_Claim ==
    [][\A r \in Req :
          (/\ pc[r] \notin {"start", "clone_rm", "clone_mkdir", "done", "panicked"}
           /\ Ended(r)')
          => disk'[Unwrap(target_dir[r])].kind = "absent"]_vars

\* C3: a request in which a stage before the cache write failed has SET
\* nothing in the cache, and a response it returns carries no data.
C3_NoPartialResult ==
    \A r \in Req :
        (IsSome(failed[r]) /\ failed[r] # Some("store")) =>
            /\ writes[r] = <<>>
            /\ IsSome(response[r]) => Unwrap(response[r]).data = None

C3_Witness ==
    \E r \in Req :
        /\ pc[r] = "done"
        /\ failed[r] = Some("parse")
        /\ built[r] = 0
        /\ Unwrap(response[r]).data = None

\* C4 (as claimed): every request that ends has a response; it is the 400
\* exactly when `repo` is missing (and then no stage ran), a 500 exactly when
\* a stage failed (success false, no data, the stage's error), and the 200
\* exactly when every stage succeeded (success true, data, no error).
C4_Claim ==
    \A r \in Req :
        Ended(r) =>
            /\ IsSome(response[r])
            /\ LET resp == Unwrap(response[r]) IN
               /\ resp.status = 400 <=> repo[r] = None
               /\ resp.status = 400 =>
                     /\ resp.error = Some("repo query parameter is required")
                     /\ ~resp.success
                     /\ target_dir[r] = None /\ content[r] = None /\ writes[r] = <<>>
               /\ resp.status = 500 <=> IsSome(failed[r])
               /\ resp.status = 500 =>
                     /\ ~resp.success /\ resp.data = None
                     /\ Unwrap(failed[r]) \in Stages
                     /\ resp.error = Some(ErrorOf(Unwrap(failed[r])))
               /\ resp.status = 200 <=> (IsSome(repo[r]) /\ failed[r] = None)
               /\ resp.status = 200 =>
                     /\ resp.success /\ IsSome(resp.data) /\ resp.error = None
                     /\ Len(writes[r]) = 1

C6_StoredOnceWhatIsReturned ==
    \A r \in Req :
        /\ Len(writes[r]) <= 1
        /\ (IsSome(response[r]) /\ Unwrap(response[r]).status = 200) =>
              writes[r] = << <<(<<"cjlint_", Unwrap(repo[r])>>),
                               Serialize(Unwrap(Unwrap(response[r]).data))>> >>

C6_Witness ==
    \E r \in Req :
        /\ pc[r] = "done"
        /\ Unwrap(response[r]).status = 200
        /\ Len(writes[r]) = 1

\* C7: the cache holds, for a URL, no entry before a store for it completed
\* and afterwards the one entry that the last completed store wrote; it
\* holds nothing under other keys, so a store changes its own URL's key only.
C7_LastWriteWins ==
    /\ \A u \in Urls :
          EntriesOf(u) = IF lastStored[u] = None THEN {}
                         ELSE {<<(<<"cjlint_", u>>), Unwrap(lastStored[u])>>}
    /\ \A e \in cache : \E u \in Urls : e \in EntriesOf(u)

C7_Witness ==
    \E r, q \in Req :
        /\ r # q
        /\ repo[r] = repo[q]
        /\ Len(writes[r]) = 1 /\ Len(writes[q]) = 1
        /\ writes[r] # writes[q]
        /\ Cardinality(EntriesOf(Unwrap(repo[r]))) = 1
        /\ writes[q][1] \in cache

\* A request holds its working copy from clone_repository's success until
\* its guard has removed it or the request has ended.
Holding(r) ==
    /\ IsSome(repo_cleanup[r])
    /\ ~Unwrap(repo_cleanup[r]).cleaned
    /\ ~Ended(r)

OwnClone(r) == DirCloned(Unwrap(repo[r]))

\* C8 (as claimed): while a request holds its working copy, the directory
\* is on disk with the request's own clone in it, whatever the others do.
C8_Claim ==
    \A r \in Req :
        Holding(r) => disk[Unwrap(repo_cleanup[r]).repo_path] = OwnClone(r)

\* C8 (amended): the same, for a request whose directory name no other
\* request has drawn.
C8_IsolatedUnlessSameName ==
    \A r \in Req :
        (/\ Holding(r)
         /\ \A q \in Req \ {r} : target_dir[q] # target_dir[r])
        => disk[Unwrap(repo_cleanup[r]).repo_path] = OwnClone(r)

C8_Witness ==
    \E r, q \in Req :
        /\ Holding(r)
        /\ pc[q] = "done"
        /\ IsSome(target_dir[q])
        /\ target_dir[q] # target_dir[r]
        /\ removals[q].ok = 1
        /\ disk[Unwrap(repo_cleanup[r]).repo_path] = OwnClone(r)

\* C9: a request one of whose removals failed still returns what the
\* pipeline decided: the 200 with the AnalysisResult it built, its cache
\* entry in place, when no stage failed; the 500 of the stage that failed
\* otherwise.
C9_CleanupFailureKeepsOutcome ==
    \A r \in Req :
        (pc[r] = "done" /\ removals[r].attempts > removals[r].ok) =>
            LET resp == Unwrap(response[r]) IN
            IF failed[r] = None
            THEN /\ resp.status = 200 /\ resp.success /\ resp.error = None
                 /\ resp.data = analysis_result[r] /\ IsSome(resp.data)
                 /\ EntriesOf(Unwrap(repo[r])) # {}
                 /\ (\A q \in Req \ {r} : repo[q] # repo[r])
                       => writes[r][1] \in cache
            ELSE /\ resp.status = 500 /\ ~resp.success /\ resp.data = None
                 /\ resp.error = Some(ErrorOf(Unwrap(failed[r])))

C9_Witness ==
    \E r \in Req :
        /\ pc[r] = "done"
        /\ removals[r] = [attempts |-> 2, ok |-> 0]
        /\ Unwrap(response[r]).status = 200
        /\ writes[r][1] \in cache

\* C10 (as claimed): a request whose clone succeeded and whose HEAD could
\* not be resolved ends with the 500 of the clone stage.
C10_Claim ==
    \A r \in Req :
        failed[r] = Some("head") =>
            /\ pc[r] = "done"
            /\ IsSome(response[r])
            /\ Unwrap(response[r]).status = 500
            /\ ~Unwrap(response[r]).success
            /\ Unwrap(response[r]).error = Some("Failed to clone repository")

(***************************************************************************)
(* Path normalization (NormSpec).                                          *)
(***************************************************************************)
Contains(s, p) ==
    \E i \in 0..Len(s) : i + Len(p) <= Len(s) /\ SubSeq(s, i + 1, i + Len(p)) = p

\* The working-copy path as a directory prefix: with one trailing separator.
DirPrefix(p) == IF EndsWithSlash(p) THEN p ELSE p \o <<"/">>

Relative(s) == ~StartsWith(s, <<"/">>)

\* C11 as stated: after normalization no finding path has the working-copy
\* path as a substring, whatever the working-copy path and the raw path.
C11_Claim ==
    IsSome(norm.out) => ~Contains(Unwrap(norm.out), norm.repo_path)

\* C11, amended: for an absolute working-copy path P and a raw path that is
\* P's directory prefix followed by a relative path R, the normalized path
\* is R, which does not begin with P.
C11_InsideRelative ==
    IsSome(norm.out) =>
        LET P == norm.repo_path
            F == norm.file
            R == SliceFrom(F, Len(DirPrefix(P)))
        IN  (StartsWith(P, <<"/">>) /\ StartsWith(F, DirPrefix(P)) /\ Relative(R))
                => /\ Unwrap(norm.out) = R
                   /\ ~StartsWith(Unwrap(norm.out), P)

\* /r and /r/a give a.
C11_Witness ==
    /\ norm.repo_path = <<"/", "r">>
    /\ norm.file = <<"/", "r", "/", "a">>
    /\ norm.out = Some(<<"a">>)

\* C12: for P without a trailing separator and R relative, P/R is rewritten
\* to R whether the working-copy path is given as P or as P/; a raw path of
\* which the given working-copy path is no prefix is returned unchanged.
C12_RelativeOrUnchanged ==
    IsSome(norm.out) =>
        LET G == norm.repo_path
            F == norm.file
            P == IF EndsWithSlash(G) THEN SubSeq(G, 1, Len(G) - 1) ELSE G
            R == SliceFrom(F, Len(P) + 1)
        IN  /\ (~EndsWithSlash(P) /\ StartsWith(F, P \o <<"/">>) /\ Relative(R))
                => Unwrap(norm.out) = R
            /\ ~StartsWith(F, G) => Unwrap(norm.out) = F

\* The working-copy path given with its trailing separator: /r/ and /r/a.
C12_Witness ==
    /\ norm.repo_path = <<"/", "r", "/">>
    /\ norm.file = <<"/", "r", "/", "a">>
    /\ norm.out = Some(<<"a">>)

\* The three-step policy: (a) strip the working-copy path with a separator
\* appended if that is a prefix; (b) else strip the working-copy path if it
\* is a prefix, then one leading separator; (c) else leave the path.
Policy(file, repo_path) ==
    IF StartsWith(file, repo_path \o <<"/">>)
    THEN SliceFrom(file, Len(repo_path) + 1)
    ELSE IF StartsWith(file, repo_path)
         THEN LET rest == SliceFrom(file, Len(repo_path))
              IN  IF StartsWith(rest, <<"/">>) THEN SliceFrom(rest, 1) ELSE rest
         ELSE file

Inside(file, repo_path) ==
    file = repo_path \/ StartsWith(file, DirPrefix(repo_path))

C19_Claim ==
    (setup.pc = "returned" /\ setup.extracted) => setup.bin = Some(ExecMode)

(***************************************************************************)
(* The analyzer invoker (LintSpec).                                        *)
(***************************************************************************)
\* run_cjlint hands text to the handler in this step.
LintReturnsOk(r) == content'[r] # content[r]

\* C13, the step that returns the raw JSON: the analyzer had exited with
\* status 0, the text is what was read from the output file, and the step
\* deletes that file, which then no longer exists.
C13_ReturnStep(r) ==
    LintReturnsOk(r) =>
        /\ pc[r] = "lint_delete"
        /\ lint[r].exit_ok
        /\ IsSome(lint[r].json_content)
        /\ content'[r] = lint[r].json_content
        /\ IsSome(outfiles[Unwrap(lint[r].output_path)])
        /\ outfiles'[Unwrap(lint[r].output_path)] = None
        /\ lint'[r].deletes = 1

\* C13, a failed deletion: run_cjlint returned no text, and the request has
\* ended with a 500 and has written nothing to the cache.
C13_DeleteFailure(r) ==
    lint[r].error = Some("Failed to delete cjlint output file") =>
        /\ pc[r] = "done"
        /\ content[r] = None
        /\ IsSome(response[r]) /\ Unwrap(response[r]).status = 500
        /\ Unwrap(response[r]).error = Some("Failed to run cjlint")
        /\ writes[r] = <<>>

\* C13: run_cjlint returns the raw JSON only after exit status 0, a read of
\* the output file and the deletion of that file; a failed deletion makes
\* the request end with 500 and no cache write.
C13_ReturnsOnlyAfterDelete ==
    /\ [](\A r \in Req : C13_DeleteFailure(r))
    /\ [][\A r \in Req : C13_ReturnStep(r)]_vars

\* One request got its text and its output file is gone; another could not
\* delete its output file.
C13_Witness ==
    /\ \E r \in Req :
          /\ IsSome(content[r])
          /\ lint[r].deletes = 1
          /\ \A f \in OutputPaths : outfiles[f] = None
    /\ \E r \in Req :
          /\ lint[r].error = Some("Failed to delete cjlint output file")
          /\ pc[r] = "done"

\* run_cjlint fails in this step on the exit status or on the read.
LintFailsEarly(r) ==
    /\ lint[r].error = None
    /\ lint'[r].error \in {Some("cjlint command failed with exit code"),
                           Some("Failed to read cjlint output")}

\* C20: when the analyzer exits non-zero or the output file cannot be read,
\* run_cjlint returns the failure without a remove_file call: the output
\* files are as they were, the request ends with the 500 and only its
\* working copy is released; an ended request has made no such call.
C20_FailureLeavesOutputFile ==
    /\ [](\A r \in Req :
            lint[r].error \in {Some("cjlint command failed with exit code"),
                               Some("Failed to read cjlint output")}
                => pc[r] = "done" /\ lint[r].deletes = 0)
    /\ [][\A r \in Req :
            LintFailsEarly(r) =>
                /\ outfiles' = outfiles
                /\ lint'[r].deletes = 0
                /\ pc'[r] = "done"
                /\ Unwrap(response'[r]).status = 500
                /\ removals'[r].attempts = removals[r].attempts + 1]_vars

\* A request ended on a non-zero exit status and the file the analyzer wrote
\* at its output path is still there.
C20_Witness ==
    \E r \in Req :
        /\ lint[r].error = Some("cjlint command failed with exit code")
        /\ pc[r] = "done"
        /\ IsSome(outfiles[Unwrap(lint[r].output_path)])
        /\ disk[Unwrap(clone_result[r]).repo_path] = DirAbsent

(***************************************************************************)
(* The RepoCleanup guard (Spec and GuardSpec).                             *)
(***************************************************************************)
Cleaned(r) == IsSome(repo_cleanup[r]) /\ Unwrap(repo_cleanup[r]).cleaned

\* C14: a request's guard removes the working copy successfully at most
\* once; `cleaned` is set only with one successful removal by this guard;
\* once it is set (a successful cleanup() included) the guard removes
\* nothing more, its Drop included; and a request with a guard that ends
\* with no failed removal has exactly one successful removal.
C14_RemovedOnce ==
    /\ [](\A r \in Req :
            /\ removals[r].ok <= 1
            /\ Cleaned(r) <=> removals[r].ok = 1
            /\ (pc[r] = "done" /\ IsSome(repo_cleanup[r])
                    /\ removals[r].attempts = removals[r].ok)
                => removals[r].ok = 1)
    /\ [][\A r \in Req : Cleaned(r) => removals'[r] = removals[r]]_vars

\* A request answered 200 whose cleanup() succeeded: one removal, and the
\* Drop at the return made no other.
C14_Witness ==
    \E r \in Req :
        /\ pc[r] = "done"
        /\ failed[r] = None
        /\ Unwrap(response[r]).status = 200
        /\ removals[r] = [attempts |-> 1, ok |-> 1]
        /\ Cleaned(r)

\* A cleanup() call on request r's guard.
CleanupCalled(r) == guard'[r].calls = guard[r].calls + 1

\* C15: a cleanup() call on a guard whose cleanup() has succeeded returns
\* Ok, makes no filesystem operation and leaves the guard as it is, however
\* many calls came before.
C15_CleanupIdempotent ==
    [][\A r \in Req :
          (CleanupCalled(r) /\ Cleaned(r)) =>
              /\ guard'[r].result = Some("Ok")
              /\ removals'[r] = removals[r]
              /\ disk' = disk
              /\ repo_cleanup'[r] = repo_cleanup[r]]_vars

\* Three calls on one guard: one removal, and the last call returned Ok.
C15_Witness ==
    \E r \in Req :
        /\ guard[r].calls = 3
        /\ guard[r].result = Some("Ok")
        /\ removals[r] = [attempts |-> 1, ok |-> 1]
        /\ Cleaned(r)

(***************************************************************************)
(* The order of the stages (Spec).                                         *)
(***************************************************************************)
\* The handler's positions in the order of its code.
StagePos(p) ==
    CASE p = "start" -> 0
      [] p = "clone_rm" -> 1
      [] p = "clone_mkdir" -> 2
      [] p = "clone_fetch" -> 3
      [] p = "find_package_name" -> 4
      [] p = "run_cjlint" -> 5
      [] p = "parse" -> 6
      [] p = "store" -> 7
      [] p = "cleanup" -> 8
      [] p = "respond" -> 9
      [] p = "done" -> 10
      [] p = "panicked" -> 10

\* C17 (as claimed): within a request the stages run at most once each and
\* in the order acquire, locate, analyze, parse and normalize, build, store,
\* release; a stage other than release starts only if every earlier stage
\* succeeded; the first failure determines the response; and on the success
\* path the cache write is complete before the working copy is released.
C17_Claim ==
    /\ [](\A r \in Req :
            /\ built[r] <= 1 /\ Len(writes[r]) <= 1 /\ removals[r].ok <= 1
            /\ IsSome(package_name[r]) => IsSome(clone_result[r])
            /\ IsSome(content[r]) => IsSome(package_name[r])
            /\ IsSome(analysis_result[r]) => IsSome(content[r])
            /\ writes[r] # <<>> => IsSome(analysis_result[r])
            /\ IsSome(failed[r]) => Ended(r)
            /\ (Ended(r) /\ IsSome(failed[r])) =>
                  /\ IsSome(response[r])
                  /\ Unwrap(response[r]).status = 500
                  /\ Unwrap(failed[r]) \in Stages
                  /\ Unwrap(response[r]).error = Some(ErrorOf(Unwrap(failed[r])))
            /\ (failed[r] = None /\ removals[r].attempts > 0) => Len(writes[r]) = 1)
    /\ [][\A r \in Req :
            pc'[r] # pc[r] => StagePos(pc'[r]) > StagePos(pc[r])]_vars

====
